---- MODULE Spec2Model ----
(***************************************************************************)
(* Model of the two x402 request-runner scripts, clients/httpx/main.py and *)
(* clients/httpx/test_function.py.                                         *)
(*                                                                         *)
(* A Python string is a sequence of one-character strings, so that         *)
(* lower(), "in", split() and urlencode() are computed, not assumed.       *)
(* An optional value (None or a value) is the empty set or a singleton.    *)
(***************************************************************************)
EXTENDS Integers, Sequences, FiniteSets, TLC

\* ------------------------------------------------------------- bounds

\* Longest argv (after the script name) of a run of the whole script.
MaxArgs == 2

\* Longest argv of the argument-parsing specification.
MaxTokens == 3

\* Longest list of offered payment requirements.
MaxAccepts == 2

\* ------------------------------------------------------------ strings

None == {}

Some(v) == {v}

TheValue(o) == CHOOSE v \in o : TRUE

\* Python truthiness of an optional string: None and "" are falsy.
Truthy(o) == o # {} /\ o # {<<>>}

\* The printable ASCII characters, code 32 first (code 96, the grave accent,
\* is a placeholder: no input of the model holds it).
AsciiPrintable ==
  <<" ", "!", "\"", "#", "$", "%", "&", "'", "(", ")", "*", "+", ",", "-", ".", "/",
    "0", "1", "2", "3", "4", "5", "6", "7", "8", "9", ":", ";", "<", "=", ">", "?",
    "@", "A", "B", "C", "D", "E", "F", "G", "H", "I", "J", "K", "L", "M", "N", "O",
    "P", "Q", "R", "S", "T", "U", "V", "W", "X", "Y", "Z", "[", "\\", "]", "^", "_",
    "<grave>", "a", "b", "c", "d", "e", "f", "g", "h", "i", "j", "k", "l", "m", "n", "o",
    "p", "q", "r", "s", "t", "u", "v", "w", "x", "y", "z", "{", "|", "}", "~">>

\* ord(c), as a table over the printable characters.
CodeTable ==
  [c \in {AsciiPrintable[i] : i \in 1..Len(AsciiPrintable)} |->
     31 + (CHOOSE i \in 1..Len(AsciiPrintable) : AsciiPrintable[i] = c)]

CharCode(c) == CodeTable[c]

CharOf(n) == AsciiPrintable[n - 31]

HexDigits ==
  <<"0", "1", "2", "3", "4", "5", "6", "7", "8", "9", "A", "B", "C", "D", "E", "F">>

IsUpper(c) == CharCode(c) >= CharCode("A") /\ CharCode(c) <= CharCode("Z")

IsLower(c) == CharCode(c) >= CharCode("a") /\ CharCode(c) <= CharCode("z")

IsDigit(c) == CharCode(c) >= CharCode("0") /\ CharCode(c) <= CharCode("9")

\* str.lower() on one character.
LowerChar(c) ==
  IF IsUpper(c) THEN CharOf(CharCode(c) + (CharCode("a") - CharCode("A"))) ELSE c

\* str.lower()
Lower(s) == [i \in 1..Len(s) |-> LowerChar(s[i])]

\* sub in s
Contains(s, sub) ==
  \E i \in 0..(Len(s) - Len(sub)) : SubSeq(s, i + 1, i + Len(sub)) = sub

\* s.startswith(sub)
StartsWith(s, sub) == Len(s) >= Len(sub) /\ SubSeq(s, 1, Len(sub)) = sub

\* The index of the first occurrence of character c in s; 0 when absent.
Find(s, c) ==
  IF \E i \in 1..Len(s) : s[i] = c
    THEN CHOOSE i \in 1..Len(s) : s[i] = c /\ \A j \in 1..(i - 1) : s[j] # c
    ELSE 0

\* arg.split('=', 1) of an arg that holds '=': <<key, value>>.
SplitOnce(arg) ==
  <<SubSeq(arg, 1, Find(arg, "=") - 1), SubSeq(arg, Find(arg, "=") + 1, Len(arg))>>

RECURSIVE Concat(_)
\* "".join(parts)
Concat(parts) ==
  IF parts = <<>> THEN <<>> ELSE Head(parts) \o Concat(Tail(parts))

RECURSIVE Join(_, _)
\* sep.join(parts)
Join(sep, parts) ==
  IF parts = <<>> THEN <<>>
  ELSE IF Len(parts) = 1 THEN parts[1]
  ELSE parts[1] \o sep \o Join(sep, Tail(parts))

\* ------------------------------------------------------- urllib.parse

\* The characters quote() never escapes: letters, digits and "_.-~".
AlwaysSafe(c) == IsUpper(c) \/ IsLower(c) \/ IsDigit(c) \/ c \in {"_", ".", "-", "~"}

PercentEncode(c) ==
  <<"%", HexDigits[(CharCode(c) \div 16) + 1], HexDigits[(CharCode(c) % 16) + 1]>>

QuotePlusChar(c) ==
  IF c = " " THEN <<"+">>
  ELSE IF AlwaysSafe(c) THEN <<c>>
  ELSE PercentEncode(c)

\* urllib.parse.quote_plus(s), the quote_via of urlencode.
QuotePlus(s) == Concat([i \in 1..Len(s) |-> QuotePlusChar(s[i])])

\* ------------------------------------------------- string literals of the code

\* 'toolzv4'
S_toolzv4 == <<"t", "o", "o", "l", "z", "v", "4">>

\* 'url-qr-code-generator'
S_url_qr_code_generator ==
  <<"u", "r", "l", "-", "q", "r", "-", "c", "o", "d", "e", "-", "g", "e", "n", "e", "r", "a", "t", "o", "r">>

\* 'email-validator'
S_email_validator ==
  <<"e", "m", "a", "i", "l", "-", "v", "a", "l", "i", "d", "a", "t", "o", "r">>

\* 'target'
S_target == <<"t", "a", "r", "g", "e", "t">>

\* '8.8.8.8'
S_8_8_8_8 == <<"8", ".", "8", ".", "8", ".", "8">>

\* 'count'
S_count == <<"c", "o", "u", "n", "t">>

\* '4'
S_4 == <<"4">>

\* 'timeout'
S_timeout == <<"t", "i", "m", "e", "o", "u", "t">>

\* '5000'
S_5000 == <<"5", "0", "0", "0">>

\* 'url'
S_url == <<"u", "r", "l">>

\* 'https://example.com'
S_https_example_com ==
  <<"h", "t", "t", "p", "s", ":", "/", "/", "e", "x", "a", "m", "p", "l", "e", ".", "c", "o", "m">>

\* 'size'
S_size == <<"s", "i", "z", "e">>

\* '200'
S_200 == <<"2", "0", "0">>

\* 'email'
S_email == <<"e", "m", "a", "i", "l">>

\* 'user@example.com'
S_user_example_com ==
  <<"u", "s", "e", "r", "@", "e", "x", "a", "m", "p", "l", "e", ".", "c", "o", "m">>

\* '/functions/v1/'
S_path_prefix == <<"/", "f", "u", "n", "c", "t", "i", "o", "n", "s", "/", "v", "1", "/">>

\* 'payment'
S_payment == <<"p", "a", "y", "m", "e", "n", "t">>

\* 'x-'
S_x_dash == <<"x", "-">>

\* 'X-Payment-Response'
S_X_Payment_Response ==
  <<"X", "-", "P", "a", "y", "m", "e", "n", "t", "-", "R", "e", "s", "p", "o", "n", "s", "e">>

\* ------------------------------------------- strings of the inputs

\* 'bogus'
S_bogus == <<"b", "o", "g", "u", "s">>

\* 'verbose'
S_verbose == <<"v", "e", "r", "b", "o", "s", "e">>

\* 'target=1.2.3.4'
S_arg_target == <<"t", "a", "r", "g", "e", "t", "=", "1", ".", "2", ".", "3", ".", "4">>

\* 'count=9'
S_arg_count == <<"c", "o", "u", "n", "t", "=", "9">>

\* 'target=a b/c'
S_arg_target2 == <<"t", "a", "r", "g", "e", "t", "=", "a", " ", "b", "/", "c">>

\* 'size=300'
S_arg_size == <<"s", "i", "z", "e", "=", "3", "0", "0">>

\* 'tag=x=y&z'
S_arg_tag == <<"t", "a", "g", "=", "x", "=", "y", "&", "z">>

\* '/functions/v1/toolzv4?target=1.2.3.4&count=4&timeout=5000'
S_expected_path ==
  <<"/", "f", "u", "n", "c", "t", "i", "o", "n", "s", "/", "v", "1", "/", "t", "o", "o", "l", "z", "v", "4", "?", "t", "a", "r", "g", "e", "t", "=", "1", ".", "2", ".", "3", ".", "4", "&", "c", "o", "u", "n", "t", "=", "4", "&", "t", "i", "m", "e", "o", "u", "t", "=", "5", "0", "0", "0">>

\* 'tag'
S_tag == <<"t", "a", "g">>

\* '0xa11ce'
S_key_ok == <<"0", "x", "a", "1", "1", "c", "e">>

\* 'oops'
S_key_bad == <<"o", "o", "p", "s">>

\* 'http://h'
S_base_url == <<"h", "t", "t", "p", ":", "/", "/", "h">>

\* '/f'
S_endpoint == <<"/", "f">>

\* 'anon'
S_anon == <<"a", "n", "o", "n">>

\* 'x-request-id'
S_x_request_id == <<"x", "-", "r", "e", "q", "u", "e", "s", "t", "-", "i", "d">>

\* 'Content-Type'
S_Content_Type == <<"C", "o", "n", "t", "e", "n", "t", "-", "T", "y", "p", "e">>

\* 'Access-Control-Max-Age'
S_Access_Control_Max_Age ==
  <<"A", "c", "c", "e", "s", "s", "-", "C", "o", "n", "t", "r", "o", "l", "-", "M", "a", "x", "-", "A", "g", "e">>

\* 'Payment-Required'
S_Payment_Required ==
  <<"P", "a", "y", "m", "e", "n", "t", "-", "R", "e", "q", "u", "i", "r", "e", "d">>

\* ------------------------------------------------------------- dicts

\* A Python dict is the sequence of its <<key, value>> pairs in insertion order.
DictHas(d, k) == \E i \in 1..Len(d) : d[i][1] = k

DictGet(d, k) == d[CHOOSE i \in 1..Len(d) : d[i][1] = k][2]

\* d[k] = v: an existing key keeps its place, a new key goes last.
DictSet(d, k, v) ==
  IF DictHas(d, k)
    THEN [i \in 1..Len(d) |-> IF d[i][1] = k THEN <<k, v>> ELSE d[i]]
    ELSE Append(d, <<k, v>>)

RECURSIVE DictUpdate(_, _)
\* d.update(e), the effect of each ** of a dict display
DictUpdate(d, e) ==
  IF e = <<>> THEN d
  ELSE DictUpdate(DictSet(d, Head(e)[1], Head(e)[2]), Tail(e))

\* --------------------------------------------------- test_function.py

\* FUNCTION_CONFIGS: each logical name with its default_params (the
\* descriptions are only printed).
FUNCTION_CONFIGS ==
  << <<S_toolzv4, << <<S_target, S_8_8_8_8>>, <<S_count, S_4>>, <<S_timeout, S_5000>> >> >>,
     <<S_url_qr_code_generator, << <<S_url, S_https_example_com>>, <<S_size, S_200>> >> >>,
     <<S_email_validator, << <<S_email, S_user_example_com>> >> >> >>

RECURSIVE ParamsLoop(_, _)
\* The loops of parse_args: every arg holding '=' sets params[key] = value.
ParamsLoop(args, params) ==
  IF args = <<>> THEN params
  ELSE ParamsLoop(Tail(args),
                  IF Contains(Head(args), <<"=">>)
                    THEN DictSet(params, SplitOnce(Head(args))[1], SplitOnce(Head(args))[2])
                    ELSE params)

\* parse_args() as it would be without the sys.exit(1) of the unknown-name
\* branch: the first argument is returned as the function name.
parse_args_NoExitOnUnknown(args, fn_env) ==
  IF args = <<>>
    THEN [exit |-> Some(1), out |-> <<"usage", "available_functions">>,
          function_name |-> None, params |-> <<>>]
    ELSE [exit |-> None, out |-> <<>>,
          function_name |-> IF Truthy(fn_env) THEN fn_env ELSE Some(args[1]),
          params |-> ParamsLoop(IF ~Truthy(fn_env) THEN Tail(args) ELSE args, <<>>)]

\* parse_args() as it would be if every unknown name ended the process, the
\* one from FUNCTION_NAME too.
parse_args_ExitOnOverride(args, fn_env) ==
  IF args = <<>>
    THEN [exit |-> Some(1), out |-> <<"usage", "available_functions">>,
          function_name |-> None, params |-> <<>>]
    ELSE LET function_name == IF Truthy(fn_env) THEN TheValue(fn_env) ELSE args[1]
         IN IF DictHas(FUNCTION_CONFIGS, function_name)
              THEN [exit |-> None, out |-> <<>>,
                    function_name |-> Some(function_name),
                    params |-> ParamsLoop(IF ~Truthy(fn_env) THEN Tail(args) ELSE args, <<>>)]
              ELSE [exit |-> Some(1), out |-> <<"not_a_known_function", "available_functions">>,
                    function_name |-> None, params |-> <<>>]

\* parse_args() on sys.argv[1:] = args with os.getenv('FUNCTION_NAME') = fn_env:
\* the exit status when it exits, what it prints, and what it returns.
parse_args(args, fn_env) ==
  IF args = <<>>
    THEN [exit |-> Some(1), out |-> <<"usage", "available_functions">>,
          function_name |-> None, params |-> <<>>]
    ELSE LET function_name == IF Truthy(fn_env) THEN TheValue(fn_env) ELSE args[1]
         IN IF DictHas(FUNCTION_CONFIGS, function_name)
              THEN [exit |-> None, out |-> <<>>,
                    function_name |-> Some(function_name),
                    params |-> ParamsLoop(IF ~Truthy(fn_env) THEN Tail(args) ELSE args, <<>>)]
              ELSE IF ~Truthy(fn_env)
                THEN [exit |-> Some(1), out |-> <<"not_a_known_function", "available_functions">>,
                      function_name |-> None, params |-> <<>>]
                ELSE [exit |-> None, out |-> <<>>,
                      function_name |-> fn_env,
                      params |-> ParamsLoop(args, <<>>)]

\* The merge with its operands swapped, {**params, **defaults}: defaults win.
MergeParams_DefaultsWin(default_params, params) ==
  DictUpdate(DictUpdate(<<>>, params), default_params)

\* {**config['default_params'], **params}
MergeParams(default_params, params) ==
  DictUpdate(DictUpdate(<<>>, default_params), params)

\* urllib.parse.urlencode of a dict of strings
urlencode(query) ==
  Join(<<"&">>, [i \in 1..Len(query) |->
                   QuotePlus(query[i][1]) \o <<"=">> \o QuotePlus(query[i][2])])

\* f"/functions/v1/{function_name}?{query_string}"
EndpointPath(function_name, final_params) ==
  S_path_prefix \o function_name \o <<"?">> \o urlencode(final_params)

\* ------------------------------------------------- payment selector

\* x402Client.default_payment_requirements_selector of the x402 library: the
\* first offered requirement that passes the scheme and network filters and
\* has the scheme "exact"; it raises when that one costs more than max_value,
\* and when there is none.
default_payment_requirements_selector(accepts, network_filter, scheme_filter, max_value) ==
  LET passes(r) ==
        /\ ~(scheme_filter # None /\ r.scheme # TheValue(scheme_filter))
        /\ ~(network_filter # None /\ r.network # TheValue(network_filter))
        /\ r.scheme = "exact"
      hits == {i \in 1..Len(accepts) : passes(accepts[i])}
      first == CHOOSE i \in hits : \A j \in hits : i <= j
  IN IF hits = {}
       THEN [raised |-> "UnsupportedSchemeException", selected |-> None]
     ELSE IF max_value # None /\ accepts[first].max_amount_required > TheValue(max_value)
       THEN [raised |-> "PaymentAmountExceededError", selected |-> None]
     ELSE [raised |-> "", selected |-> Some(accepts[first])]

\* The selector as it would be if it passed the caller's network_filter on.
custom_payment_selector_PassThrough(accepts, network_filter, scheme_filter, max_value) ==
  default_payment_requirements_selector(accepts, network_filter, scheme_filter, max_value)

\* custom_payment_selector, the same in both scripts: the caller's
\* network_filter is dropped and "base" is passed in its place.
custom_payment_selector(accepts, network_filter, scheme_filter, max_value) ==
  default_payment_requirements_selector(accepts, Some("base"), scheme_filter, max_value)

\* ---------------------------------------------------------- report

\* The test of the header loop: 'payment' in key.lower() or 'x-' in key.lower()
HeaderEchoed(key) ==
  Contains(Lower(key), S_payment) \/ Contains(Lower(key), S_x_dash)

\* "X-Payment-Response" in response.headers: httpx compares header names
\* without regard to case.
HasSettlementHeader(headers) ==
  \E h \in headers : Lower(h) = Lower(S_X_Payment_Response)

\* The branch on response.status_code.
StatusReport(status_code) ==
  IF status_code = 200 THEN "payment_verified"
  ELSE IF status_code = 402 THEN "payment_not_processed"
  ELSE "unexpected_status"

\* ------------------------------------------------------------ inputs

SeqsUpTo(S, n) == UNION {[1..k -> S] : k \in 0..n}

\* PRIVATE_KEY as the environment may hold it: unset, empty, a string
\* Account.from_key rejects, a string it accepts.
KeyValues == {None, Some(<<>>), Some(S_key_bad), Some(S_key_ok)}

\* Account.from_key(private_key) returns an account; it raises on a string
\* that is no private key.
from_key_accepts(private_key) == private_key = S_key_ok

\* The command lines of the runs of the whole script.
ArgPool == {S_toolzv4, S_bogus, S_arg_target}

\* The command lines of the argument-parsing specification.
TokenPool ==
  {S_toolzv4, S_url_qr_code_generator, S_arg_target, S_arg_count, S_arg_target2,
   S_arg_size, S_arg_tag, S_verbose}

FunctionNameValues == {None, Some(<<>>), Some(S_toolzv4), Some(S_bogus)}

\* The header names a response may carry.
HeaderPool ==
  {S_X_Payment_Response, S_x_request_id, S_Content_Type, S_Access_Control_Max_Age,
   S_Payment_Required}

StatusCodes == {200, 402, 500}

\* What client.get may return: the final status, the header names, whether
\* the body can be read and decoded, and whether the settlement header (when
\* there is one) decodes.
Responses ==
  {r \in [status_code : StatusCodes, headers : SUBSET HeaderPool,
          readable : BOOLEAN, settlement_decodes : BOOLEAN] :
     (\A h \in r.headers : Lower(h) # Lower(S_X_Payment_Response)) => r.settlement_decodes}

\* The payment requirements a server may offer.
Requirements ==
  [scheme : {"exact", "upto"}, network : {"base", "base-sepolia"},
   max_amount_required : {1, 5}]

NetworkFilters == {None, Some("base"), Some("base-sepolia")}

SchemeFilters == {None, Some("exact"), Some("upto")}

MaxValues == {None, Some(1), Some(3)}

NoSelection == [accepts |-> <<>>, network_filter |-> None, scheme_filter |-> None,
                max_value |-> None]

\* ------------------------------------------------------------- state

VARIABLES
  script,         \* which script runs: "main", "test_function", or "none"
  env,            \* the environment after load_dotenv()
  argv,           \* sys.argv[1:]
  pc,             \* where the run is
  function_name,  \* test_function.py: what parse_args returned
  params,         \* test_function.py: what parse_args returned
  final_params,   \* test_function.py: the merged parameters
  endpoint_path,  \* the path of the request
  headers,        \* the request headers given to the client (None before)
  client,         \* "none", "open" (inside async with), "closed"
  get_count,      \* calls of client.get so far
  response,       \* what client.get returned
  echoed,         \* the response header names the report printed
  out,            \* what was printed, as message tags in order
  exit_code,      \* the exit status once the process has ended
  sel_args,       \* the arguments a call of custom_payment_selector got
  sel_result      \* what that call returned or raised

vars ==
  <<script, env, argv, pc, function_name, params, final_params, endpoint_path,
    headers, client, get_count, response, echoed, out, exit_code, sel_args,
    sel_result>>

Printed(tag) == \E i \in 1..Len(out) : out[i] = tag

\* The state every run starts from, apart from its inputs.
Fresh ==
  /\ function_name = None
  /\ params = <<>>
  /\ final_params = <<>>
  /\ headers = None
  /\ client = "none"
  /\ get_count = 0
  /\ response = None
  /\ echoed = {}
  /\ out = <<>>
  /\ exit_code = None

InitMain ==
  /\ script = "main"
  /\ env \in [PRIVATE_KEY : KeyValues,
              RESOURCE_SERVER_URL : {None, Some(S_base_url)},
              ENDPOINT_PATH : {None, Some(S_endpoint)},
              SUPABASE_ANON_KEY : {None, Some(S_anon)},
              FUNCTION_NAME : {None}]
  /\ argv = <<>>
  /\ pc = "m_config"
  /\ endpoint_path = env.ENDPOINT_PATH

InitTest ==
  /\ script = "test_function"
  /\ env \in [PRIVATE_KEY : KeyValues,
              RESOURCE_SERVER_URL : {None, Some(S_base_url)},
              ENDPOINT_PATH : {None},
              SUPABASE_ANON_KEY : {None, Some(S_anon)},
              FUNCTION_NAME : FunctionNameValues]
  /\ argv \in SeqsUpTo(ArgPool, MaxArgs)
  /\ pc = "t_parse"
  /\ endpoint_path = None

Init ==
  /\ InitMain \/ InitTest
  /\ Fresh
  /\ sel_args = NoSelection
  /\ sel_result = None

\* ---------------------------------------------------- main.py, module level

\* not all([private_key, base_url, endpoint_path])
MissingRequired(e) ==
  ~(Truthy(e.PRIVATE_KEY) /\ Truthy(e.RESOURCE_SERVER_URL) /\ Truthy(e.ENDPOINT_PATH))

\* The request headers: Authorization and Content-Type when the anon key is set.
BuildHeaders(e) ==
  IF Truthy(e.SUPABASE_ANON_KEY) THEN {"Authorization", "Content-Type"} ELSE {}

\* The configuration check: exit(1) when a required variable is missing.
M_Config ==
  /\ pc = "m_config"
  /\ IF MissingRequired(env)
       THEN /\ out' = Append(out, "missing_env")
            /\ exit_code' = Some(1)
            /\ pc' = "exited"
       ELSE /\ pc' = "m_account"
            /\ UNCHANGED <<out, exit_code>>
  /\ UNCHANGED <<script, env, argv, function_name, params, final_params,
                 endpoint_path, headers, client, get_count, response, echoed,
                 sel_args, sel_result>>

\* The headers and the account: an exception of Account.from_key is caught
\* by nothing and ends the process with status 1.
M_Account ==
  /\ pc = "m_account"
  /\ headers' = Some(BuildHeaders(env))
  /\ IF from_key_accepts(TheValue(env.PRIVATE_KEY))
       THEN /\ out' = out \o (IF Truthy(env.SUPABASE_ANON_KEY)
                                THEN <<"using_authorization">> ELSE <<>>)
                          \o <<"initialized_account">>
            /\ pc' = "acquire"
            /\ UNCHANGED exit_code
       ELSE /\ out' = out \o (IF Truthy(env.SUPABASE_ANON_KEY)
                                THEN <<"using_authorization">> ELSE <<>>)
                          \o <<"uncaught_traceback">>
            /\ exit_code' = Some(1)
            /\ pc' = "exited"
  /\ UNCHANGED <<script, env, argv, function_name, params, final_params,
                 endpoint_path, client, get_count, response, echoed,
                 sel_args, sel_result>>

\* ------------------------------------------------- test_function.py

\* The __main__ block's call of parse_args(): sys.exit(1) or the return value.
T_ParseArgs ==
  /\ pc = "t_parse"
  /\ LET r == parse_args(argv, env.FUNCTION_NAME)
     IN /\ out' = out \o r.out
        /\ exit_code' = r.exit
        /\ function_name' = r.function_name
        /\ params' = r.params
        /\ pc' = IF r.exit # None THEN "exited" ELSE "t_lookup"
  /\ UNCHANGED <<script, env, argv, final_params, endpoint_path, headers, client,
                 get_count, response, echoed, sel_args, sel_result>>

\* test_function(): an unknown function is reported and the coroutine returns.
T_Lookup ==
  /\ pc = "t_lookup"
  /\ IF ~DictHas(FUNCTION_CONFIGS, TheValue(function_name))
       THEN /\ out' = out \o <<"unknown_function", "available_functions">>
            /\ pc' = "finish"
       ELSE /\ pc' = "t_build"
            /\ UNCHANGED out
  /\ UNCHANGED <<script, env, argv, function_name, params, final_params,
                 endpoint_path, headers, client, get_count, response, echoed,
                 exit_code, sel_args, sel_result>>

\* test_function(): the merged parameters and the endpoint path.
T_Build ==
  /\ pc = "t_build"
  /\ final_params' =
       MergeParams(DictGet(FUNCTION_CONFIGS, TheValue(function_name)), params)
  /\ endpoint_path' = Some(EndpointPath(TheValue(function_name), final_params'))
  /\ pc' = "t_env"
  /\ UNCHANGED <<script, env, argv, function_name, params, headers, client,
                 get_count, response, echoed, out, exit_code, sel_args, sel_result>>

\* test_function(): without PRIVATE_KEY it prints an error and returns.
T_Env ==
  /\ pc = "t_env"
  /\ IF ~Truthy(env.PRIVATE_KEY)
       THEN /\ out' = out \o <<"private_key_required">>
            /\ pc' = "finish"
       ELSE /\ pc' = "t_account"
            /\ UNCHANGED out
  /\ UNCHANGED <<script, env, argv, function_name, params, final_params,
                 endpoint_path, headers, client, get_count, response, echoed,
                 exit_code, sel_args, sel_result>>

\* test_function(): the headers, the account and the banner. An exception of
\* Account.from_key leaves the coroutine and asyncio.run: status 1.
T_Account ==
  /\ pc = "t_account"
  /\ headers' = Some(BuildHeaders(env))
  /\ IF from_key_accepts(TheValue(env.PRIVATE_KEY))
       THEN /\ out' = out \o <<"testing_function", "payment_flow_banner">>
            /\ pc' = "acquire"
            /\ UNCHANGED exit_code
       ELSE /\ out' = out \o <<"uncaught_traceback">>
            /\ exit_code' = Some(1)
            /\ pc' = "exited"
  /\ UNCHANGED <<script, env, argv, function_name, params, final_params,
                 endpoint_path, client, get_count, response, echoed,
                 sel_args, sel_result>>

\* ------------------------------------- the request and the report (both scripts)

\* async with x402HttpxClient(...) as client: the client is acquired.
Acquire ==
  /\ pc = "acquire"
  /\ client' = "open"
  /\ out' = IF script = "main" THEN out \o <<"making_request", "payment_flow_banner">>
            ELSE out
  /\ pc' = "get"
  /\ UNCHANGED <<script, env, argv, function_name, params, final_params,
                 endpoint_path, headers, get_count, response, echoed, exit_code,
                 sel_args, sel_result>>

\* A run that asks again when the final status is 402.
AfterResponse_Retry(r) == IF r.status_code = 402 THEN "get" ELSE "report"

\* Where the run goes once client.get has returned a response.
AfterResponse(r) == "report"

\* response = await client.get(endpoint_path) returns.
GetReturns ==
  /\ pc = "get"
  /\ get_count' = get_count + 1
  /\ \E r \in Responses :
       /\ response' = Some(r)
       /\ pc' = AfterResponse(r)
  /\ UNCHANGED <<script, env, argv, function_name, params, final_params,
                 endpoint_path, headers, client, echoed, out, exit_code,
                 sel_args, sel_result>>

\* await client.get(endpoint_path) raises (transport or payment error).
GetRaises ==
  /\ pc = "get"
  /\ get_count' = get_count + 1
  /\ pc' = "except"
  /\ UNCHANGED <<script, env, argv, function_name, params, final_params,
                 endpoint_path, headers, client, response, echoed, out, exit_code,
                 sel_args, sel_result>>

\* The status line, the body read and decoded (which may raise), the echoed
\* headers and the body.
ReportResponse ==
  /\ pc = "report"
  /\ LET r == TheValue(response)
     IN IF ~r.readable
          THEN /\ out' = out \o <<"response_status">>
               /\ pc' = "except"
               /\ UNCHANGED echoed
          ELSE /\ out' = out \o <<"response_status", "response_headers", "response_body">>
               /\ echoed' = {h \in r.headers : HeaderEchoed(h)}
               /\ pc' = "classify"
  /\ UNCHANGED <<script, env, argv, function_name, params, final_params,
                 endpoint_path, headers, client, get_count, response, exit_code,
                 sel_args, sel_result>>

\* The verification block: one branch per final status.
Classify ==
  /\ pc = "classify"
  /\ out' = out \o <<"verification_banner", StatusReport(TheValue(response).status_code)>>
  /\ pc' = "settle"
  /\ UNCHANGED <<script, env, argv, function_name, params, final_params,
                 endpoint_path, headers, client, get_count, response, echoed,
                 exit_code, sel_args, sel_result>>

\* The settlement block: decoded and printed when the header is there (the
\* decoder may raise), its absence reported otherwise.
Settle ==
  /\ pc = "settle"
  /\ LET r == TheValue(response)
     IN IF HasSettlementHeader(r.headers)
          THEN IF r.settlement_decodes
                 THEN /\ out' = out \o <<"settlement_confirmed">>
                      /\ pc' = "release"
                 ELSE /\ pc' = "except"
                      /\ UNCHANGED out
          ELSE /\ out' = out \o <<"no_settlement_header">>
               /\ pc' = "release"
  /\ UNCHANGED <<script, env, argv, function_name, params, final_params,
                 endpoint_path, headers, client, get_count, response, echoed,
                 exit_code, sel_args, sel_result>>

\* except Exception: the message and the traceback are printed.
Except ==
  /\ pc = "except"
  /\ out' = out \o <<"error_occurred", "traceback">>
  /\ pc' = "release"
  /\ UNCHANGED <<script, env, argv, function_name, params, final_params,
                 endpoint_path, headers, client, get_count, response, echoed,
                 exit_code, sel_args, sel_result>>

\* A client that was only constructed, never entered as a context: leaving
\* the block does not close it.
LeaveBlock_Leak(c) == c

\* The client's state once the async with block is left (its __aexit__).
LeaveBlock(c) == "closed"

\* The async with block is left.
Release ==
  /\ pc = "release"
  /\ client' = LeaveBlock(client)
  /\ pc' = "finish"
  /\ UNCHANGED <<script, env, argv, function_name, params, final_params,
                 endpoint_path, headers, get_count, response, echoed, out,
                 exit_code, sel_args, sel_result>>

\* asyncio.run returns and the interpreter ends with status 0.
Finish ==
  /\ pc = "finish"
  /\ exit_code' = Some(0)
  /\ pc' = "exited"
  /\ UNCHANGED <<script, env, argv, function_name, params, final_params,
                 endpoint_path, headers, client, get_count, response, echoed, out,
                 sel_args, sel_result>>

Next ==
  \/ M_Config
  \/ M_Account
  \/ T_ParseArgs
  \/ T_Lookup
  \/ T_Build
  \/ T_Env
  \/ T_Account
  \/ Acquire
  \/ GetReturns
  \/ GetRaises
  \/ ReportResponse
  \/ Classify
  \/ Settle
  \/ Except
  \/ Release
  \/ Finish

Spec == Init /\ [][Next]_vars

\* ------------------------------------ specification of the argument parsing

InitArgs ==
  /\ script = "test_function"
  /\ env \in [PRIVATE_KEY : {Some(S_key_ok)},
              RESOURCE_SERVER_URL : {None},
              ENDPOINT_PATH : {None},
              SUPABASE_ANON_KEY : {None},
              FUNCTION_NAME : FunctionNameValues \cup {Some(S_email_validator)}]
  /\ argv \in SeqsUpTo(TokenPool, MaxTokens)
  /\ pc = "t_parse"
  /\ endpoint_path = None
  /\ Fresh
  /\ sel_args = NoSelection
  /\ sel_result = None

NextArgs ==
  \/ T_ParseArgs
  \/ T_Lookup
  \/ T_Build

SpecArgs == InitArgs /\ [][NextArgs]_vars

\* -------------------------------------- specification of the payment selector

InitSel ==
  /\ script = "none"
  /\ env = [PRIVATE_KEY |-> None, RESOURCE_SERVER_URL |-> None, ENDPOINT_PATH |-> None,
            SUPABASE_ANON_KEY |-> None, FUNCTION_NAME |-> None]
  /\ argv = <<>>
  /\ pc = "select"
  /\ endpoint_path = None
  /\ Fresh
  /\ sel_args \in [accepts : SeqsUpTo(Requirements, MaxAccepts),
                   network_filter : NetworkFilters,
                   scheme_filter : SchemeFilters,
                   max_value : MaxValues]
  /\ sel_result = None

\* The client library calls the selector it was given.
Select ==
  /\ pc = "select"
  /\ sel_result' = Some(custom_payment_selector(sel_args.accepts, sel_args.network_filter,
                                                sel_args.scheme_filter, sel_args.max_value))
  /\ pc' = "selected"
  /\ UNCHANGED <<script, env, argv, function_name, params, final_params,
                 endpoint_path, headers, client, get_count, response, echoed, out,
                 exit_code, sel_args>>

NextSel == Select

SpecSel == InitSel /\ [][NextSel]_vars

\* ============================================================ claims

IsRegistered(name) == DictHas(FUNCTION_CONFIGS, name)

\* The run printed one of the two missing-configuration errors.
PrintedConfigError == Printed("missing_env") \/ Printed("private_key_required")

\* A required setting is missing and the run came to the check of it.
RequiredMissing ==
  \/ script = "main" /\ MissingRequired(env)
  \/ script = "test_function" /\ ~Truthy(env.PRIVATE_KEY) /\ endpoint_path # None

\* C1: in both scripts a run that finds a required setting missing prints an
\* error, ends with exit status 1 and issues no request.
C1_MissingConfigExitsOne ==
  (pc = "exited" /\ RequiredMissing) =>
    /\ PrintedConfigError
    /\ exit_code = Some(1)
    /\ get_count = 0
    /\ client = "none"

C3_ExactlyOneGet ==
  /\ get_count <= 1
  /\ client = "none" => get_count = 0
  /\ pc = "get" => get_count = 0
  /\ (client # "none" /\ pc # "get") => get_count = 1
  /\ (client # "none" /\ pc # "exited") => ENABLED Next

\* A run that got 402 and ended without asking again.
C3_Witness ==
  /\ pc = "exited"
  /\ get_count = 1
  /\ response # None
  /\ TheValue(response).status_code = 402

\* C4: a client that was acquired is released before the process ends, on
\* the success path, the non-200 path and the exception path.
C4_ClientReleased ==
  /\ pc \in {"finish", "exited"} => client \in {"none", "closed"}
  /\ pc \in {"get", "report", "classify", "settle", "except", "release"} => client = "open"

\* A run that raised inside the block and ended with the client closed.
C4_Witness ==
  /\ pc = "exited"
  /\ client = "closed"
  /\ Printed("error_occurred")

\* C5: for a final status of 402 the report says the payment was not
\* processed correctly and prints no settlement confirmation, whatever the
\* response headers are.
C5_NoSettlementOn402 ==
  (/\ response # None
   /\ TheValue(response).status_code = 402
   /\ Printed("verification_banner")
   /\ pc \in {"release", "finish", "exited"}) =>
    /\ Printed("payment_not_processed")
    /\ ~Printed("settlement_confirmed")

\* The run ended on a command line parse_args rejects.
UsageError == Printed("usage") \/ Printed("not_a_known_function")

\* C6: the exit status is 1 exactly when the run ends in a missing-
\* configuration error or a usage error, and 0 on every other run.
C6_ExitCode ==
  pc = "exited" =>
    (exit_code = Some(1) <=> (RequiredMissing \/ UsageError))

\* The command line of a usage error: no argument, or a first token that is no
\* registered function with no FUNCTION_NAME to override it.
UsageErrorInput ==
  /\ script = "test_function"
  /\ \/ argv = <<>>
     \/ ~Truthy(env.FUNCTION_NAME) /\ ~IsRegistered(argv[1])

\* C7: test_function.py with no arguments, or with an unknown first token and
\* no FUNCTION_NAME, prints the usage or registry message and exits with
\* status 1, never opening the client or issuing a request.
C7_UsageExit ==
  UsageErrorInput =>
    /\ pc \in {"t_parse", "exited"}
    /\ client = "none"
    /\ get_count = 0
    /\ pc = "exited" =>
         /\ exit_code = Some(1)
         /\ Printed("available_functions")
         /\ IF argv = <<>> THEN Printed("usage") ELSE Printed("not_a_known_function")

\* An unknown first token without override, after the exit.
C7_Witness ==
  /\ UsageErrorInput
  /\ argv # <<>>
  /\ argv[1] = S_bogus
  /\ pc = "exited"
  /\ exit_code = Some(1)

\* The arguments parse_args reads its parameters from.
ReadArgs == IF Truthy(env.FUNCTION_NAME) THEN argv ELSE Tail(argv)

HoldsEquals(arg) == Contains(arg, <<"=">>)

\* The <<key, value>> pairs the caller supplied, in command-line order.
Supplied ==
  LET kv == SelectSeq(ReadArgs, HoldsEquals)
  IN [i \in 1..Len(kv) |-> SplitOnce(kv[i])]

IsSupplied(k) == \E i \in 1..Len(Supplied) : Supplied[i][1] = k

FirstAt(k) == CHOOSE i \in 1..Len(Supplied) :
                Supplied[i][1] = k /\ \A j \in 1..(i - 1) : Supplied[j][1] # k

\* The value of the last token that supplies k.
LastValue(k) ==
  Supplied[CHOOSE i \in 1..Len(Supplied) :
             Supplied[i][1] = k /\ \A j \in (i + 1)..Len(Supplied) : Supplied[j][1] # k][2]

Defaults == DictGet(FUNCTION_CONFIGS, TheValue(function_name))

\* The defaults, each key in place with the caller's value when there is one.
OverriddenDefaults ==
  [i \in 1..Len(Defaults) |->
     <<Defaults[i][1],
       IF IsSupplied(Defaults[i][1]) THEN LastValue(Defaults[i][1]) ELSE Defaults[i][2]>>]

RECURSIVE SplitAll(_, _)
\* s.split(c)
SplitAll(s, c) ==
  IF Find(s, c) = 0 THEN <<s>>
  ELSE <<SubSeq(s, 1, Find(s, c) - 1)>> \o SplitAll(SubSeq(s, Find(s, c) + 1, Len(s)), c)

HexValue(c) == (CHOOSE i \in 1..Len(HexDigits) : HexDigits[i] = c) - 1

RECURSIVE UnquotePlus(_)
\* urllib.parse.unquote_plus: what a server reads back from a query string.
UnquotePlus(s) ==
  IF s = <<>> THEN <<>>
  ELSE IF Head(s) = "+" THEN <<" ">> \o UnquotePlus(Tail(s))
  ELSE IF Head(s) = "%"
    THEN <<CharOf(16 * HexValue(s[2]) + HexValue(s[3]))>> \o UnquotePlus(SubSeq(s, 4, Len(s)))
  ELSE <<Head(s)>> \o UnquotePlus(Tail(s))

\* The query string of a path, read back as a server does: parse_qsl.
QueryOf(path) ==
  LET q == SubSeq(path, Find(path, "?") + 1, Len(path))
      parts == SplitAll(q, "&")
  IN [i \in 1..Len(parts) |->
        <<UnquotePlus(SplitOnce(parts[i])[1]), UnquotePlus(SplitOnce(parts[i])[2])>>]

\* The path before its "?".
PathOf(path) == SubSeq(path, 1, Find(path, "?") - 1)

\* Only the characters a query string may hold unescaped are in it.
QuerySafe(path) ==
  \A i \in (Find(path, "?") + 1)..Len(path) :
    AlwaysSafe(path[i]) \/ path[i] \in {"=", "&", "+", "%"}

\* test_function has merged the parameters and built the path.
Built == script = "test_function" /\ endpoint_path # None

\* C8 as stated: the mapping is the defaults, each key in place with the
\* caller's value when it has one, and the path is /functions/v1/<function>?
\* followed by that mapping URL-encoded in that order.
C8_DefaultsOverriddenInPlace ==
  Built =>
    /\ final_params = OverriddenDefaults
    /\ PathOf(TheValue(endpoint_path)) = S_path_prefix \o TheValue(function_name)
    /\ QueryOf(TheValue(endpoint_path)) = OverriddenDefaults

\* C8 as amended: the mapping is the defaults, each key in place with the
\* last value the caller gave it when it gave one, followed by the caller's
\* keys that are no defaults, in the order of their first appearance, each
\* with its last value; the path is /functions/v1/<function>? followed by
\* that mapping URL-encoded in that order, so that reading the query back
\* gives the mapping; `toolzv4 target=1.2.3.4` gives
\* /functions/v1/toolzv4?target=1.2.3.4&count=4&timeout=5000.
C8_MergedParamsAndPath ==
  Built =>
    LET extra == SubSeq(final_params, Len(Defaults) + 1, Len(final_params))
    IN /\ SubSeq(final_params, 1, Len(Defaults)) = OverriddenDefaults
       /\ {extra[i][1] : i \in 1..Len(extra)} =
            {Supplied[i][1] : i \in 1..Len(Supplied)} \ {Defaults[i][1] : i \in 1..Len(Defaults)}
       /\ \A i \in 1..Len(extra) :
            /\ extra[i][2] = LastValue(extra[i][1])
            /\ \A j \in (i + 1)..Len(extra) : FirstAt(extra[i][1]) < FirstAt(extra[j][1])
       /\ PathOf(TheValue(endpoint_path)) = S_path_prefix \o TheValue(function_name)
       /\ QuerySafe(TheValue(endpoint_path))
       /\ QueryOf(TheValue(endpoint_path)) = final_params
       /\ (argv = <<S_toolzv4, S_arg_target>> /\ ~Truthy(env.FUNCTION_NAME)) =>
            TheValue(endpoint_path) = S_expected_path

\* A default overridden twice, a key that is no default, and a value that
\* needs escaping, in one command line.
C8_Witness ==
  /\ Built
  /\ argv = <<S_arg_target, S_arg_tag, S_arg_target2>>
  /\ env.FUNCTION_NAME = Some(S_toolzv4)
  /\ Len(final_params) = Len(Defaults) + 1
  /\ final_params[1] = <<S_target, <<"a", " ", "b", "/", "c">> >>
  /\ final_params[Len(final_params)][1] = S_tag

\* C9: the report echoes a response header exactly when its name, lower-cased,
\* contains "payment" or starts with "x-".
C9_EchoedHeaders ==
  Printed("response_headers") =>
    echoed = {h \in TheValue(response).headers :
                Contains(Lower(h), S_payment) \/ StartsWith(Lower(h), S_x_dash)}

\* FUNCTION_NAME names no registered function and there is an argument.
UnknownOverrideInput ==
  /\ script = "test_function"
  /\ Truthy(env.FUNCTION_NAME)
  /\ ~IsRegistered(TheValue(env.FUNCTION_NAME))
  /\ argv # <<>>

\* C10: with FUNCTION_NAME set to an unregistered name and at least one
\* argument, parse_args returns that name, test_function reports the unknown
\* function and returns, and the process ends with status 0, the client never
\* opened and no request issued.
C10_UnknownOverrideExitsZero ==
  UnknownOverrideInput =>
    /\ pc \in {"t_parse", "t_lookup", "finish", "exited"}
    /\ client = "none"
    /\ get_count = 0
    /\ pc # "t_parse" => function_name = env.FUNCTION_NAME
    /\ pc \in {"finish", "exited"} => Printed("unknown_function")
    /\ pc = "exited" => exit_code = Some(0)

\* Such a run, ended.
C10_Witness ==
  /\ UnknownOverrideInput
  /\ pc = "exited"
  /\ exit_code = Some(0)
  /\ Printed("unknown_function")

====
